---- MODULE Spec2Model ----
(***************************************************************************)
(* Model of the diff-anchored edit pipeline of the AI review scripts:      *)
(*   .github/workflows/ai_review.py            (line-addressed mode)       *)
(*   .github/scripts/ai_review_suggestions.py  (snippet-addressed mode)    *)
(*                                                                         *)
(* Text is a sequence of characters; LF, CR, BT and ZWSP stand for the    *)
(* line feed, the carriage return, the backtick and U+200B.                *)
(***************************************************************************)
EXTENDS Integers, Sequences, FiniteSets, TLC

VARIABLES
    \* clamp_and_validate_range: arguments and returned triples
    cl_start, cl_end, cl_min_r, cl_max_r, cl_right_lines,
    cl_result, cl_again, cl_pc,
    \* apply_edits_and_commit on one file: text on disk, edits, text written
    ap_text, ap_changes, ap_lines, ap_written, ap_pc,
    \* find_snippet_line_span: the file's lines, the span the snippet is
    \* taken from, the two arguments and the returned span
    sn_lines, sn_s, sn_e, sn_content, sn_snippet, sn_span, sn_pc,
    \* extract_suggestions_json: the fenced blocks of the model output, the
    \* output text and the returned list
    ex_blocks, ex_text, ex_result, ex_pc,
    \* parse_new_file_lines_from_patch: the patch and what the call gives
    pa_patch, pa_result, pa_pc,
    \* ai_review.py, the run: the control flags, the files of the pull
    \* request, the locals of main(), the reviews posted, the checkout
    SUGGEST_INLINE, ONLY_CONSOLIDATED, APPLY_MODE,
    files, fi, min_r, max_r, right_lines,
    file_summaries, file_suggestions, si,
    consolidated_sections, inline_comments, edits_to_apply,
    posted, disk, pc, abort_at

clampVars == <<cl_start, cl_end, cl_min_r, cl_max_r, cl_right_lines,
               cl_result, cl_again, cl_pc>>

applyVars == <<ap_text, ap_changes, ap_lines, ap_written, ap_pc>>

snippetVars == <<sn_lines, sn_s, sn_e, sn_content, sn_snippet, sn_span, sn_pc>>

extractVars == <<ex_blocks, ex_text, ex_result, ex_pc>>

parseVars == <<pa_patch, pa_result, pa_pc>>

flagVars == <<SUGGEST_INLINE, ONLY_CONSOLIDATED, APPLY_MODE>>

mainVars == <<flagVars, files, fi, min_r, max_r, right_lines,
              file_summaries, file_suggestions, si,
              consolidated_sections, inline_comments, edits_to_apply,
              posted, disk, pc, abort_at>>

vars == <<clampVars, applyVars, snippetVars, extractVars, parseVars, mainVars>>

notClampVars == <<applyVars, snippetVars, extractVars, parseVars, mainVars>>

notApplyVars == <<clampVars, snippetVars, extractVars, parseVars, mainVars>>

notSnippetVars == <<clampVars, applyVars, extractVars, parseVars, mainVars>>

notExtractVars == <<clampVars, applyVars, snippetVars, parseVars, mainVars>>

notMainVars == <<clampVars, applyVars, snippetVars, extractVars, parseVars>>

notParseVars == <<clampVars, applyVars, snippetVars, extractVars, mainVars>>

----------------------------------------------------------------------------
(* Characters *)

LF == "LF"
CR == "CR"
BT == "BT"
ZWSP == "ZWSP"

NoValue == "None"

----------------------------------------------------------------------------
(* Python built-ins used by the scripts *)

Max(a, b) == IF a >= b THEN a ELSE b

Min(a, b) == IF a <= b THEN a ELSE b

\* s[i:] (0-based i, as Python slices)
From(s, i) == SubSeq(s, i + 1, Len(s))

\* s.startswith(pat)
StartsWith(s, pat) == Len(s) >= Len(pat) /\ SubSeq(s, 1, Len(pat)) = pat

RECURSIVE Replace(_, _, _)
\* s.replace(pat, rep): left to right, occurrences do not overlap (pat # "")
Replace(s, pat, rep) ==
    IF Len(s) < Len(pat) THEN s
    ELSE IF StartsWith(s, pat)
         THEN rep \o Replace(From(s, Len(pat)), pat, rep)
         ELSE <<Head(s)>> \o Replace(Tail(s), pat, rep)

RECURSIVE Find(_, _)
\* s.find(sub): 0-based index of the first occurrence, -1 when there is none
Find(s, sub) ==
    IF StartsWith(s, sub) THEN 0
    ELSE IF s = <<>> THEN 0 - 1
    ELSE LET r == Find(Tail(s), sub) IN IF r < 0 THEN r ELSE r + 1

\* sub in s
Contains(s, sub) == Find(s, sub) >= 0

\* s.count(ch, 0, idx) for a single character ch
CountBefore(s, ch, idx) == Cardinality({i \in 1..Min(idx, Len(s)) : s[i] = ch})

RECURSIVE RStripLF(_)
\* s.rstrip("\n")
RStripLF(s) ==
    IF s # <<>> /\ s[Len(s)] = LF THEN RStripLF(SubSeq(s, 1, Len(s) - 1)) ELSE s

Whitespace == {" ", LF, CR}

\* bool(s.strip()): some character of s is not whitespace
NotBlank(s) == \E i \in 1..Len(s) : s[i] \notin Whitespace

RECURSIVE SplitLinesFrom(_, _, _)
SplitLinesFrom(s, i, cur) ==
    IF i > Len(s) THEN (IF cur = <<>> THEN <<>> ELSE <<cur>>)
    ELSE IF s[i] = LF THEN <<cur>> \o SplitLinesFrom(s, i + 1, <<>>)
    ELSE IF s[i] = CR
         THEN <<cur>> \o SplitLinesFrom(
                  s, IF i < Len(s) /\ s[i + 1] = LF THEN i + 2 ELSE i + 1, <<>>)
    ELSE SplitLinesFrom(s, i + 1, Append(cur, s[i]))

\* s.splitlines(): breaks at LF, CR and CR LF; no empty last line
SplitLines(s) == SplitLinesFrom(s, 1, <<>>)

RECURSIVE SplitFrom(_, _, _, _)
SplitFrom(s, sep, i, cur) ==
    IF i > Len(s) THEN <<cur>>
    ELSE IF s[i] = sep THEN <<cur>> \o SplitFrom(s, sep, i + 1, <<>>)
    ELSE SplitFrom(s, sep, i + 1, Append(cur, s[i]))

\* s.split(sep) for a single character sep
Split(s, sep) == SplitFrom(s, sep, 1, <<>>)

RECURSIVE Join(_, _)
\* sep.join(parts)
Join(parts, sep) ==
    IF parts = <<>> THEN <<>>
    ELSE IF Len(parts) = 1 THEN parts[1]
    ELSE parts[1] \o sep \o Join(Tail(parts), sep)

\* text as open(path, "r") returns it: universal newlines
ReadText(text) == Replace(Replace(text, <<CR, LF>>, <<LF>>), <<CR>>, <<LF>>)

----------------------------------------------------------------------------
(* Bounds of the model *)

MaxLine == 3

MaxEdits == 2

MaxSnipLines == 3

MaxBlocks == 2

MaxTicks == 5

MaxHunks == 2

MaxHunkLines == 2

MaxNeedleLines == 2

----------------------------------------------------------------------------
(* ai_review.py: clamp_and_validate_range *)

\* In clamp_and_validate_range the parameters right_lines, min_r and max_r
\* are named covered, lo and hi.

\* mutant: the end line is treated as exclusive
ClampEndExclusive(start_line, end_line, covered, lo, hi) ==
    LET s1 == IF start_line > end_line THEN end_line ELSE start_line
        e1 == IF start_line > end_line THEN start_line ELSE end_line
        s2 == Max(lo, s1)
        e2 == Min(hi, e1 - 1)
    IN  IF s2 > e2
        THEN <<s2, e2, FALSE>>
        ELSE <<s2, e2, \E ln \in s2..e2 : ln \in covered>>

\* mutant: both ends are clamped into [min_r, max_r]
ClampBothEnds(start_line, end_line, covered, lo, hi) ==
    LET s1 == IF start_line > end_line THEN end_line ELSE start_line
        e1 == IF start_line > end_line THEN start_line ELSE end_line
        s2 == Min(hi, Max(lo, s1))
        e2 == Max(lo, Min(hi, e1))
    IN  IF s2 > e2
        THEN <<s2, e2, FALSE>>
        ELSE <<s2, e2, \E ln \in s2..e2 : ln \in covered>>

\* mutant: a reversed pair is not swapped
ClampSkipsSwap(start_line, end_line, covered, lo, hi) ==
    LET s2 == Max(lo, start_line)
        e2 == Min(hi, end_line)
    IN  IF s2 > e2
        THEN <<s2, e2, FALSE>>
        ELSE <<s2, e2, \E ln \in s2..e2 : ln \in covered>>

\* mutant: an ordered clamped range is accepted without looking at the
\* covered lines
ClampAcceptsOrdered(start_line, end_line, covered, lo, hi) ==
    LET s1 == IF start_line > end_line THEN end_line ELSE start_line
        e1 == IF start_line > end_line THEN start_line ELSE end_line
        s2 == Max(lo, s1)
        e2 == Min(hi, e1)
    IN  <<s2, e2, s2 <= e2>>

clamp_and_validate_range(start_line, end_line, covered, lo, hi) ==
    LET s1 == IF start_line > end_line THEN end_line ELSE start_line
        e1 == IF start_line > end_line THEN start_line ELSE end_line
        s2 == Max(lo, s1)
        e2 == Min(hi, e1)
    IN  IF s2 > e2
        THEN <<s2, e2, FALSE>>
        ELSE <<s2, e2, \E ln \in s2..e2 : ln \in covered>>

\* Arguments a producer may send: any integers around the bounds.
LineArgs == (0 - 1)..(MaxLine + 2)

\* LineBounds as the data model has them: min_r <= max_r, covered lines inside.
ClampInit ==
    /\ cl_start \in LineArgs
    /\ cl_end \in LineArgs
    /\ cl_min_r \in 0..MaxLine
    /\ cl_max_r \in cl_min_r..MaxLine
    /\ cl_right_lines \in SUBSET (cl_min_r..cl_max_r)
    /\ cl_result = NoValue
    /\ cl_again = NoValue
    /\ cl_pc = "call"

ClampIdle ==
    /\ cl_start = 0 /\ cl_end = 0 /\ cl_min_r = 0 /\ cl_max_r = 0
    /\ cl_right_lines = {} /\ cl_result = NoValue /\ cl_again = NoValue
    /\ cl_pc = "idle"

\* first call
ClampCall ==
    /\ cl_pc = "call"
    /\ cl_result' = clamp_and_validate_range(cl_start, cl_end, cl_right_lines,
                                             cl_min_r, cl_max_r)
    /\ cl_pc' = "returned"
    /\ UNCHANGED <<cl_start, cl_end, cl_min_r, cl_max_r, cl_right_lines, cl_again>>
    /\ UNCHANGED notClampVars

\* the returned (start', end') fed back with the same bounds
ClampFeedBack ==
    /\ cl_pc = "returned"
    /\ cl_again' = clamp_and_validate_range(cl_result[1], cl_result[2],
                                            cl_right_lines, cl_min_r, cl_max_r)
    /\ cl_pc' = "fedback"
    /\ UNCHANGED <<cl_start, cl_end, cl_min_r, cl_max_r, cl_right_lines, cl_result>>
    /\ UNCHANGED notClampVars

ClampNext == ClampCall \/ ClampFeedBack


----------------------------------------------------------------------------
(* Claims on clamp_and_validate_range *)

\* C1 (as stated): feeding the returned (start', end') back into
\* clamp_and_validate_range with the same bounds returns the same triple.
C1_ClampIdempotent ==
    cl_pc = "fedback" => cl_again = cl_result

\* C1 (amended): when the first call returns start' <= end' (in particular
\* whenever it accepts), feeding (start', end') back returns the same triple.
C1_ClampIdempotentWhenOrdered ==
    (cl_pc = "fedback" /\ cl_result[1] <= cl_result[2]) => cl_again = cl_result

C1_Witness ==
    /\ cl_pc = "fedback"
    /\ cl_result[1] <= cl_result[2]
    /\ cl_result[3]
    /\ cl_start < cl_min_r
    /\ cl_end > cl_max_r

\* the range lies entirely beyond maxRight
BeyondMaxRight == cl_start > cl_max_r /\ cl_end > cl_max_r

\* C2 (as stated): a range entirely beyond maxRight is clamped to
\* (maxRight, maxRight) and accepted exactly when maxRight is covered.
C2_BeyondClampsToMaxRight ==
    (cl_pc # "call" /\ BeyondMaxRight) =>
        cl_result = <<cl_max_r, cl_max_r, cl_max_r \in cl_right_lines>>

\* C2 (amended): a range entirely beyond maxRight keeps its lower end
\* (start' = min(start, end) > maxRight), has end' = maxRight, and is
\* rejected whether or not maxRight is covered.
C2_BeyondIsRejected ==
    (cl_pc # "call" /\ BeyondMaxRight) =>
        cl_result = <<Min(cl_start, cl_end), cl_max_r, FALSE>>

C2_Witness ==
    /\ cl_pc # "call"
    /\ BeyondMaxRight
    /\ cl_max_r \in cl_right_lines
    /\ cl_start # cl_end

\* C11: reversed-range tolerance: the call with (end, start) in place of
\* (start, end) and the same bounds returns the same triple.
C11_ReversedRangeTolerance ==
    cl_pc # "call" =>
        cl_result = clamp_and_validate_range(cl_end, cl_start, cl_right_lines,
                                             cl_min_r, cl_max_r)

\* a reversed pair reaching over both bounds, accepted
C11_Witness ==
    /\ cl_pc # "call"
    /\ cl_start > cl_end
    /\ cl_end < cl_min_r
    /\ cl_start > cl_max_r
    /\ cl_result = <<cl_min_r, cl_max_r, TRUE>>

\* the pair in order, then clamped: start up to minRight, end down to maxRight
ClampedStart == Max(cl_min_r, Min(cl_start, cl_end))

ClampedEnd == Min(cl_max_r, Max(cl_start, cl_end))

\* C14: the triple returned is (start', end', accepted) with start' and end'
\* the ordered pair clamped into the bounds and accepted true exactly when
\* start' <= end' and some line of [start', end'] is covered; with the empty
\* bounds (0, 0, {}) nothing is accepted.
C14_FourRules ==
    cl_pc # "call" =>
        /\ cl_result[1] = ClampedStart
        /\ cl_result[2] = ClampedEnd
        /\ cl_result[3] <=>
               (/\ ClampedStart <= ClampedEnd
                /\ (ClampedStart..ClampedEnd) \cap cl_right_lines # {})
        /\ (cl_min_r = 0 /\ cl_max_r = 0 /\ cl_right_lines = {}) => ~cl_result[3]

\* an ordered range inside the bounds that holds no covered line, while
\* other lines are covered: rejected by rule (4)
C14_Witness ==
    /\ cl_pc # "call"
    /\ cl_min_r <= cl_start /\ cl_start <= cl_end /\ cl_end <= cl_max_r
    /\ cl_right_lines # {}
    /\ (cl_start..cl_end) \cap cl_right_lines = {}
    /\ cl_result = <<cl_start, cl_end, FALSE>>

----------------------------------------------------------------------------
(* ai_review.py: apply_edits_and_commit, the rewrite of one file *)

\* mutant: the edits are applied in the order given
SortedInInputOrder(changes) == changes

\* x placed after the elements whose start_line is >= its own
InsertByStartDesc(sorted, x) ==
    LET keep == {i \in 1..Len(sorted) : sorted[i].start_line >= x.start_line}
        k == Cardinality(keep)
    IN  SubSeq(sorted, 1, k) \o <<x>> \o SubSeq(sorted, k + 1, Len(sorted))

RECURSIVE SortInto(_, _)
SortInto(sorted, rest) ==
    IF rest = <<>> THEN sorted
    ELSE SortInto(InsertByStartDesc(sorted, Head(rest)), Tail(rest))

\* sorted(changes, key=lambda x: x["start_line"], reverse=True): stable, so
\* edits with the same start_line keep their input order
SortedByStartDesc(changes) == SortInto(<<>>, changes)

\* mutant: the slice replaced stops one line short of the end line
ApplyChangeEndExclusive(lines, ch) ==
    LET s == ch.start_line
        e == ch.end_line
        s_idx == Max(0, s - 1)
        e_idx == IF lines # <<>> THEN Min(Len(lines) - 1, e - 1) ELSE 0 - 1
        new_block == SplitLines(ch.replacement)
    IN  IF e_idx >= s_idx /\ 0 <= s_idx /\ s_idx < Len(lines)
        THEN SubSeq(lines, 1, s_idx) \o new_block \o SubSeq(lines, e_idx + 1, Len(lines))
        ELSE lines

\* mutant: a range whose end is before its start is not turned away
ApplyChangeAcceptsEmptyRange(lines, ch) ==
    LET s == ch.start_line
        e == ch.end_line
        s_idx == Max(0, s - 1)
        e_idx == IF lines # <<>> THEN Min(Len(lines) - 1, e - 1) ELSE 0 - 1
        new_block == SplitLines(ch.replacement)
    IN  IF 0 <= s_idx /\ s_idx < Len(lines)
        THEN SubSeq(lines, 1, s_idx) \o new_block
                 \o SubSeq(lines, Max(s_idx, e_idx + 1) + 1, Len(lines))
        ELSE lines

\* one iteration of the loop over the sorted edits
ApplyChange(lines, ch) ==
    LET s == ch.start_line
        e == ch.end_line
        s_idx == Max(0, s - 1)
        e_idx == IF lines # <<>> THEN Min(Len(lines) - 1, e - 1) ELSE 0 - 1
        new_block == SplitLines(ch.replacement)
    IN  IF e_idx >= s_idx /\ 0 <= s_idx /\ s_idx < Len(lines)
        THEN SubSeq(lines, 1, s_idx) \o new_block \o SubSeq(lines, e_idx + 2, Len(lines))
        ELSE lines

RECURSIVE ApplyAll(_, _)
ApplyAll(lines, sorted) ==
    IF sorted = <<>> THEN lines
    ELSE ApplyAll(ApplyChange(lines, Head(sorted)), Tail(sorted))

\* the lines of a file after its edits
EditedLines(text, changes) ==
    ApplyAll(SplitLines(ReadText(text)), SortedByStartDesc(changes))

\* mutant: a line break is appended even when no line is left
WriteBackAlwaysBreak(lines) == Join(lines, <<LF>>) \o <<LF>>

\* "\n".join(lines) + ("\n" if lines else "")
WriteBack(lines) == Join(lines, <<LF>>) \o (IF lines # <<>> THEN <<LF>> ELSE <<>>)

\* Texts on disk: with and without a final line break, with blank last
\* lines, empty, and with CR LF line ends.
Originals ==
    { <<>>,
      <<LF>>,
      <<"a", LF, LF>>,
      <<"a", LF, "b", LF, "c">>,
      <<"a", LF, "b", LF, "c", LF>>,
      <<"a", CR, LF, "b", CR, LF>> }

\* Replacement texts of no line, one line, and two lines ending in a blank one
Replacements == { <<>>, <<"X">>, <<"Y", LF, LF>> }

\* (start_line, end_line) pairs: inside three lines, reaching beyond them,
\* before line 1, and reversed
EditRanges ==
    { r \in (1..3) \X (1..3) : r[1] <= r[2] }
        \cup { <<2, 1>>, <<0, 0>>, <<0, 1>>, <<3, 5>>, <<4, 4>> }

Edits ==
    { [start_line |-> r[1], end_line |-> r[2], replacement |-> t] :
        r \in EditRanges, t \in Replacements }

RECURSIVE Batches(_)
Batches(n) ==
    IF n = 0 THEN { <<>> }
    ELSE Batches(n - 1) \cup
         { Append(b, e) : b \in { x \in Batches(n - 1) : Len(x) = n - 1 }, e \in Edits }

ApplyInit ==
    /\ ap_text \in Originals
    /\ ap_changes \in Batches(MaxEdits)
    /\ ap_lines = <<>>
    /\ ap_written = <<>>
    /\ ap_pc = "apply"

ApplyIdle ==
    /\ ap_text = <<>> /\ ap_changes = <<>> /\ ap_lines = <<>>
    /\ ap_written = <<>> /\ ap_pc = "idle"

\* read the file, apply its edits from the last start line to the first, write
ApplyFile ==
    /\ ap_pc = "apply"
    /\ ap_lines' = EditedLines(ap_text, ap_changes)
    /\ ap_written' = WriteBack(ap_lines')
    /\ ap_pc' = "done"
    /\ UNCHANGED <<ap_text, ap_changes>>
    /\ UNCHANGED notApplyVars

ApplyNext == ApplyFile

----------------------------------------------------------------------------
(* Claims on apply_edits_and_commit *)

RECURSIVE Perms(_)
\* every ordering of the edits of a batch
Perms(seq) ==
    IF seq = <<>> THEN { <<>> }
    ELSE UNION { { <<seq[i]>> \o p :
                     p \in Perms(SubSeq(seq, 1, i - 1) \o SubSeq(seq, i + 1, Len(seq))) } :
                 i \in 1..Len(seq) }

DistinctStarts(changes) ==
    \A i, j \in 1..Len(changes) :
        i # j => changes[i].start_line # changes[j].start_line

\* C4 (as stated): the resulting lines are the same for every permutation of
\* the input edit sequence.
C4_OrderIndependent ==
    ap_pc # "apply" =>
        \A p \in Perms(ap_changes) : EditedLines(ap_text, p) = ap_lines

\* C4 (amended): for a batch whose edits have pairwise different start lines,
\* the resulting lines are the same for every permutation of the input.
C4_OrderIndependentDistinctStarts ==
    (ap_pc # "apply" /\ DistinctStarts(ap_changes)) =>
        \A p \in Perms(ap_changes) : EditedLines(ap_text, p) = ap_lines

\* two edits given first-line-first, both applied, as in the example
\* (1,1,...) then (3,3,...) on three lines
C4_Witness ==
    /\ ap_pc = "done"
    /\ Len(ap_changes) = 2
    /\ ap_changes[1].start_line = 1 /\ ap_changes[1].end_line = 1
    /\ ap_changes[2].start_line = 3 /\ ap_changes[2].end_line = 3
    /\ ap_changes[1].replacement = <<"X">>
    /\ ap_changes[2].replacement = <<"Y", LF, LF>>
    /\ ap_text = <<"a", LF, "b", LF, "c", LF>>
    /\ ap_lines = << <<"X">>, <<"b">>, <<"Y">>, <<>> >>

EndsWith(s, suffix) ==
    Len(s) >= Len(suffix) /\ SubSeq(s, Len(s) - Len(suffix) + 1, Len(s)) = suffix

\* C9 (as stated): the text written back ends in a line break and does not
\* end in two consecutive line breaks.
C9_SingleTrailingBreak ==
    ap_pc # "apply" =>
        EndsWith(ap_written, <<LF>>) /\ ~EndsWith(ap_written, <<LF, LF>>)

\* C9 (amended): the text written back ends in a line break whenever a line
\* is left and is empty when none is; it ends in two consecutive line breaks
\* exactly when the last line left is blank and is not the only line.
C9_TrailingBreakPerLastLine ==
    ap_pc # "apply" =>
        /\ (ap_lines = <<>>) => (ap_written = <<>>)
        /\ (ap_lines # <<>>) => EndsWith(ap_written, <<LF>>)
        /\ EndsWith(ap_written, <<LF, LF>>) <=>
               (Len(ap_lines) >= 2 /\ ap_lines[Len(ap_lines)] = <<>>)
        /\ ~EndsWith(ap_written, <<LF, LF, LF>>) \/
               (Len(ap_lines) >= 3 /\ ap_lines[Len(ap_lines) - 1] = <<>>)

\* an edit applied to the last line, leaving lines that end with a text line
C9_Witness ==
    /\ ap_pc = "done"
    /\ Len(ap_changes) = 1
    /\ ap_changes[1].replacement = <<"X">>
    /\ ap_text = <<"a", LF, "b", LF, "c">>
    /\ ap_changes[1].start_line = 3
    /\ ap_written = <<"a", LF, "b", LF, "X", LF>>

\* the lines read from the file before any edit
OriginalLines == SplitLines(ReadText(ap_text))

\* every span lies within the original content and no two spans share a line
DisjointWithin(changes, lines) ==
    /\ \A i \in 1..Len(changes) :
           /\ 1 <= changes[i].start_line
           /\ changes[i].start_line <= changes[i].end_line
           /\ changes[i].end_line <= Len(lines)
    /\ \A i, j \in 1..Len(changes) :
           i # j => \/ changes[i].end_line < changes[j].start_line
                    \/ changes[j].end_line < changes[i].start_line

RECURSIVE SimultaneousFrom(_, _, _)
\* The text from original line i on, every span replaced at once: the
\* replacement lines where a span starts, nothing for the rest of the span,
\* the original line elsewhere.
SimultaneousFrom(lines, changes, i) ==
    IF i > Len(lines) THEN <<>>
    ELSE LET starting == { k \in 1..Len(changes) : changes[k].start_line = i }
         IN  IF starting # {}
             THEN LET ch == changes[CHOOSE k \in starting : TRUE]
                  IN  SplitLines(ch.replacement)
                          \o SimultaneousFrom(lines, changes, ch.end_line + 1)
             ELSE <<lines[i]>> \o SimultaneousFrom(lines, changes, i + 1)

\* C12: for edits whose spans are pairwise disjoint and within the original
\* content, the lines after the edits are the original lines with every span
\* replaced by its replacement lines simultaneously.
C12_DisjointEditsSimultaneous ==
    (ap_pc # "apply" /\ DisjointWithin(ap_changes, OriginalLines)) =>
        ap_lines = SimultaneousFrom(OriginalLines, ap_changes, 1)

\* two disjoint edits given last-span-first whose replacements change the
\* line count: one line becomes two, two lines become one
C12_Witness ==
    /\ ap_pc = "done"
    /\ ap_text = <<"a", LF, "b", LF, "c", LF>>
    /\ Len(ap_changes) = 2
    /\ ap_changes[1] = [start_line |-> 3, end_line |-> 3, replacement |-> <<"Y", LF, LF>>]
    /\ ap_changes[2] = [start_line |-> 1, end_line |-> 2, replacement |-> <<"X">>]
    /\ DisjointWithin(ap_changes, OriginalLines)
    /\ ap_lines = << <<"X">>, <<"Y">>, <<>> >>

\* the range of ch is empty or outside the current content
EmptyOrOutside(lines, ch) ==
    \/ ch.start_line > Len(lines)
    \/ ch.end_line < ch.start_line
    \/ ch.end_line < 1
    \/ lines = <<>>

\* seq without its k-th element
Without(seq, k) == SubSeq(seq, 1, k - 1) \o SubSeq(seq, k + 1, Len(seq))

\* C15: an edit whose range is empty or outside the content as it is when
\* the edit's turn comes leaves the lines as they were, and the lines after
\* the batch are those of the batch without that edit.
C15_SkippedEditIsAbsent ==
    ap_pc # "apply" =>
        LET sorted == SortedByStartDesc(ap_changes)
        IN  \A k \in 1..Len(sorted) :
                LET current == ApplyAll(OriginalLines, SubSeq(sorted, 1, k - 1))
                IN  EmptyOrOutside(current, sorted[k]) =>
                        /\ ApplyChange(current, sorted[k]) = current
                        /\ ap_lines = EditedLines(ap_text, Without(sorted, k))

\* the first edit removes the last line, so that the second one, which
\* named that line, starts beyond the content when its turn comes
C15_Witness ==
    /\ ap_pc = "done"
    /\ ap_text = <<"a", LF, "b", LF, "c">>
    /\ Len(ap_changes) = 2
    /\ ap_changes[1] = [start_line |-> 3, end_line |-> 5, replacement |-> <<>>]
    /\ ap_changes[2] = [start_line |-> 3, end_line |-> 3, replacement |-> <<"X">>]
    /\ EmptyOrOutside(ApplyChange(OriginalLines, ap_changes[1]), ap_changes[2])
    /\ ap_lines = << <<"a">>, <<"b">> >>

----------------------------------------------------------------------------
(* ai_review_suggestions.py: find_snippet_line_span *)

\* mutant: the end line is one too far
FindSnippetEndOneOff(content, snippet) ==
    IF snippet = <<>> THEN <<>>
    ELSE LET content_norm == Replace(content, <<CR, LF>>, <<LF>>)
             snippet_norm == Replace(snippet, <<CR, LF>>, <<LF>>)
             idx == Find(content_norm, snippet_norm)
             start_line == CountBefore(content_norm, LF, idx) + 1
             lines == Split(snippet_norm, LF)
         IN  IF idx = 0 - 1 THEN <<>>
             ELSE <<start_line, start_line + Len(lines)>>

\* mutant: CR LF is not turned into LF before the search
FindSnippetNoNormalise(content, snippet) ==
    IF snippet = <<>> THEN <<>>
    ELSE LET idx == Find(content, snippet)
             start_line == CountBefore(content, LF, idx) + 1
             lines == Split(snippet, LF)
             end_line == start_line + Len(lines) - 1
         IN  IF idx = 0 - 1 THEN <<>>
             ELSE <<start_line, end_line>>

\* The Optional result is <<>> for None and <<start_line, end_line>> otherwise.
find_snippet_line_span(content, snippet) ==
    IF snippet = <<>> THEN <<>>
    ELSE LET content_norm == Replace(content, <<CR, LF>>, <<LF>>)
             snippet_norm == Replace(snippet, <<CR, LF>>, <<LF>>)
             idx == Find(content_norm, snippet_norm)
             start_line == CountBefore(content_norm, LF, idx) + 1
             lines == Split(snippet_norm, LF)
             end_line == start_line + Len(lines) - 1
         IN  IF idx = 0 - 1 THEN <<>>
             ELSE <<start_line, end_line>>

\* Lines of a file: no line holds a line break
LineTexts == { <<>>, <<"a">>, <<"b">>, <<"a", "b">>, <<"b", "a">> }

RECURSIVE LineSeqs(_)
LineSeqs(n) ==
    IF n = 0 THEN { <<>> }
    ELSE LineSeqs(n - 1) \cup
         { Append(ls, l) : ls \in { x \in LineSeqs(n - 1) : Len(x) = n - 1 },
                           l \in LineTexts }

\* the line break of a text: LF or CR LF
LineBreaks == { <<LF>>, <<CR, LF>> }

SnippetInit ==
    /\ sn_lines \in LineSeqs(MaxSnipLines) \ { <<>> }
    /\ sn_s \in 1..Len(sn_lines)
    /\ sn_e \in sn_s..Len(sn_lines)
    /\ \E br \in LineBreaks, last \in { <<>>, <<LF>> } :
           sn_content = Join(sn_lines, br) \o last
    /\ \E br \in LineBreaks :
           sn_snippet = Join(SubSeq(sn_lines, sn_s, sn_e), br)
    /\ sn_span = <<>>
    /\ sn_pc = "locate"

SnippetIdle ==
    /\ sn_lines = <<>> /\ sn_s = 0 /\ sn_e = 0 /\ sn_content = <<>>
    /\ sn_snippet = <<>> /\ sn_span = <<>> /\ sn_pc = "idle"

\* span = find_snippet_line_span(content, original)
Locate ==
    /\ sn_pc = "locate"
    /\ sn_span' = find_snippet_line_span(sn_content, sn_snippet)
    /\ sn_pc' = "located"
    /\ UNCHANGED <<sn_lines, sn_s, sn_e, sn_content, sn_snippet>>
    /\ UNCHANGED notSnippetVars

SnippetNext == Locate

\* Any snippet against any content: the lines of the content
HaystackTexts == { <<>>, <<"a">>, <<"a", "b">> }

\* the lines of the snippet
NeedleTexts == { <<>>, <<"a">>, <<"b">> }

RECURSIVE TextSeqs(_, _)
TextSeqs(texts, n) ==
    IF n = 0 THEN { <<>> }
    ELSE TextSeqs(texts, n - 1) \cup
         { Append(ls, l) : ls \in { x \in TextSeqs(texts, n - 1) : Len(x) = n - 1 },
                           l \in texts }

\* the snippet is any text of up to MaxNeedleLines lines, which may end in a
\* line break and may occur in the content or not
LocateInit ==
    /\ sn_lines \in TextSeqs(HaystackTexts, MaxSnipLines) \ { <<>> }
    /\ sn_s = 0
    /\ sn_e = 0
    /\ \E br \in LineBreaks, last \in { <<>>, <<LF>> } :
           sn_content = Join(sn_lines, br) \o last
    /\ \E ls \in TextSeqs(NeedleTexts, MaxNeedleLines), br \in LineBreaks,
          last \in { <<>>, <<LF>> } :
           sn_snippet = Join(ls, br) \o last
    /\ sn_span = <<>>
    /\ sn_pc = "locate"

----------------------------------------------------------------------------
(* Claims on find_snippet_line_span *)

\* the text the search runs on and the text searched for
ContentNorm == Replace(sn_content, <<CR, LF>>, <<LF>>)

SnippetNorm == Replace(sn_snippet, <<CR, LF>>, <<LF>>)

RECURSIVE LinesLength(_)
\* the characters of these lines, each with its line break
LinesLength(ls) == IF ls = <<>> THEN 0 ELSE Len(Head(ls)) + 1 + LinesLength(Tail(ls))

\* 0-based position of the first character of line sn_s
SpanOffset == LinesLength(SubSeq(sn_lines, 1, sn_s - 1))

\* the span's text occurs at no position before the span
NoEarlierOccurrence ==
    \A i \in 0..(SpanOffset - 1) : ~StartsWith(From(ContentNorm, i), SnippetNorm)

\* C8 (as stated): for a span [s, e] of the content whose text occurs at no
\* earlier position, the snippet made of lines s..e is located at (s, e).
C8_SnippetRoundTrip ==
    (sn_pc = "located" /\ NoEarlierOccurrence) => sn_span = <<sn_s, sn_e>>

\* C8 (amended): the same, for a span whose text is not empty (a span made of
\* one empty line gives the empty snippet, for which nothing is returned).
C8_SnippetRoundTripNonEmpty ==
    (sn_pc = "located" /\ NoEarlierOccurrence /\ sn_snippet # <<>>) =>
        sn_span = <<sn_s, sn_e>>

\* a span of two lines that is not at the start, after a line that repeats
\* part of it
C8_Witness ==
    /\ sn_pc = "located"
    /\ NoEarlierOccurrence
    /\ sn_lines = << <<"a">>, <<"a", "b">>, <<>> >>
    /\ sn_s = 2 /\ sn_e = 3
    /\ sn_span = <<2, 3>>
    /\ Contains(sn_content, <<CR, LF>>)

\* 0-based positions of the content, after normalising, where the snippet,
\* after normalising, occurs as a substring
Occurrences ==
    { i \in 0..Len(ContentNorm) : StartsWith(From(ContentNorm, i), SnippetNorm) }

FirstOccurrence == CHOOSE i \in Occurrences : \A j \in Occurrences : i <= j

\* line breaks of the content before 0-based position i
BreaksBefore(i) == Cardinality({ j \in 1..i : ContentNorm[j] = LF })

\* the lines of the snippet, counted as its line breaks plus one
SnippetLineCount ==
    Cardinality({ j \in 1..Len(SnippetNorm) : SnippetNorm[j] = LF }) + 1

\* the span of the first occurrence, nothing when there is no occurrence
FirstOccurrenceSpan ==
    IF Occurrences = {} THEN <<>>
    ELSE <<BreaksBefore(FirstOccurrence) + 1,
           BreaksBefore(FirstOccurrence) + 1 + SnippetLineCount - 1>>

\* C16 (as stated): the result is the span of the first occurrence of the
\* snippet as a substring of the content, and nothing when it does not occur.
C16_FirstOccurrence ==
    sn_pc = "located" => sn_span = FirstOccurrenceSpan

\* C16 (amended): for a snippet that is not empty the result is the span of
\* its first occurrence, the snippet's line count being its line breaks plus
\* one, and nothing when it does not occur; for the empty snippet, which
\* occurs at the start of every content, the result is nothing.
C16_FirstOccurrenceNonEmpty ==
    sn_pc = "located" =>
        /\ (sn_snippet # <<>>) => sn_span = FirstOccurrenceSpan
        /\ (sn_snippet = <<>>) => sn_span = <<>>

\* a snippet that occurs twice, first inside the second line of a content
\* with CR LF line ends
C16_Witness ==
    /\ sn_pc = "located"
    /\ sn_lines = << <<>>, <<"a", "b">>, <<"a", "b">> >>
    /\ sn_snippet = <<"b">>
    /\ Contains(sn_content, <<CR, LF>>)
    /\ Cardinality(Occurrences) = 2
    /\ sn_span = <<2, 2>>

----------------------------------------------------------------------------
(* ai_review_suggestions.py: extract_suggestions_json *)

(* The model output is a sequence of lexemes: FENCE is three backticks,   *)
(* JSONWORD the word json, WS a white-space character, LBRACE and RBRACE  *)
(* the braces.  The other lexemes are texts without braces, fences or     *)
(* white space: the members "suggestions": [s1], "suggestions": [s2],     *)
(* "suggestions": "text" and "summary": "x" of an object, and PROSE.      *)
FENCE == "fence"
JSONWORD == "json"
WS == "ws"
LBRACE == "{"
RBRACE == "}"
SUGG1 == "suggestions:[s1]"
SUGG2 == "suggestions:[s2]"
SUGGTEXT == "suggestions:text"
SUMMARY == "summary:x"
PROSE == "prose"

RECURSIVE SkipWS(_, _)
\* \s* from position i: the first position that holds no white space
SkipWS(text, i) ==
    IF i <= Len(text) /\ text[i] = WS THEN SkipWS(text, i + 1) ELSE i

\* the closing brace at k ends the group: white space and a fence follow it
ClosesAt(text, k) ==
    /\ text[k] = RBRACE
    /\ LET m == SkipWS(text, k + 1) IN m <= Len(text) /\ text[m] = FENCE

\* The match of the pattern (fence, json, white space, the group from an
\* opening brace to a closing one, white space, fence) that starts at i, as
\* <<group, position of the closing fence>>, or <<>> when there is none.
\* .*? is lazy and, with DOTALL, runs over anything: the group ends at the
\* first closing brace that white space and a fence follow.
MatchAt(text, i) ==
    IF ~(i + 1 <= Len(text) /\ text[i] = FENCE /\ text[i + 1] = JSONWORD)
    THEN <<>>
    ELSE LET j == SkipWS(text, i + 2)
         IN  IF ~(j <= Len(text) /\ text[j] = LBRACE) THEN <<>>
             ELSE LET ks == { k \in (j + 1)..Len(text) : ClosesAt(text, k) }
                  IN  IF ks = {} THEN <<>>
                      ELSE LET k == CHOOSE x \in ks : \A y \in ks : x <= y
                           IN  <<SubSeq(text, j, k), SkipWS(text, k + 1)>>

RECURSIVE FindAll(_, _)
\* re.findall: the groups of the matches, leftmost first, none overlapping
FindAll(text, i) ==
    IF i > Len(text) THEN <<>>
    ELSE LET m == MatchAt(text, i)
         IN  IF m = <<>> THEN FindAll(text, i + 1)
             ELSE <<m[1]>> \o FindAll(text, m[2] + 1)

Members == { SUGG1, SUGG2, SUGGTEXT, SUMMARY }

\* json.loads(raw) succeeds: raw is an object of no or one member
Parses(raw) ==
    /\ Len(raw) >= 2
    /\ raw[1] = LBRACE
    /\ raw[Len(raw)] = RBRACE
    /\ LET inner == SelectSeq(SubSeq(raw, 2, Len(raw) - 1), LAMBDA t : t # WS)
       IN  inner = <<>> \/ (Len(inner) = 1 /\ inner[1] \in Members)

\* isinstance(obj, dict) and "suggestions" in obj and
\* isinstance(obj["suggestions"], list)
HoldsSuggestionList(raw) ==
    /\ Parses(raw)
    /\ \E i \in 1..Len(raw) : raw[i] \in { SUGG1, SUGG2 }

\* obj["suggestions"]
SuggestionsOf(raw) ==
    IF \E i \in 1..Len(raw) : raw[i] = SUGG1 THEN <<"s1">> ELSE <<"s2">>

RECURSIVE LastWellFormed(_)
\* the loop over reversed(code_blocks)
LastWellFormed(code_blocks) ==
    IF code_blocks = <<>> THEN <<>>
    ELSE LET raw == code_blocks[Len(code_blocks)]
         IN  IF HoldsSuggestionList(raw) THEN SuggestionsOf(raw)
             ELSE LastWellFormed(SubSeq(code_blocks, 1, Len(code_blocks) - 1))

extract_suggestions_json(text) == LastWellFormed(FindAll(text, 1))

\* What a fenced block of the model output may hold
BlockBodies ==
    { <<LBRACE, SUGG1, RBRACE>>,
      <<LBRACE, WS, SUGG2, WS, RBRACE>>,
      <<LBRACE, SUGGTEXT, RBRACE>>,
      <<LBRACE, SUMMARY, RBRACE>>,
      <<LBRACE, PROSE, RBRACE>>,
      <<LBRACE, SUGG1>>,
      <<PROSE>> }

RECURSIVE BlockSeqs(_)
BlockSeqs(n) ==
    IF n = 0 THEN { <<>> }
    ELSE BlockSeqs(n - 1) \cup
         { Append(bs, b) : bs \in { x \in BlockSeqs(n - 1) : Len(x) = n - 1 },
                           b \in BlockBodies }

RECURSIVE Render(_)
\* the output text: prose, then each block between its fences
Render(blocks) ==
    IF blocks = <<>> THEN <<PROSE>>
    ELSE Render(SubSeq(blocks, 1, Len(blocks) - 1))
         \o <<WS, FENCE, JSONWORD, WS>> \o blocks[Len(blocks)] \o <<WS, FENCE, WS>>

ExtractInit ==
    /\ ex_blocks \in BlockSeqs(MaxBlocks)
    /\ ex_text = Render(ex_blocks)
    /\ ex_result = <<>>
    /\ ex_pc = "extract"

ExtractIdle ==
    /\ ex_blocks = <<>> /\ ex_text = <<>> /\ ex_result = <<>> /\ ex_pc = "idle"

\* suggestions = extract_suggestions_json(ans)
Extract ==
    /\ ex_pc = "extract"
    /\ ex_result' = extract_suggestions_json(ex_text)
    /\ ex_pc' = "extracted"
    /\ UNCHANGED <<ex_blocks, ex_text>>
    /\ UNCHANGED notExtractVars

ExtractNext == Extract

----------------------------------------------------------------------------
(* Claims on extract_suggestions_json *)

\* C10: the result is the suggestions list of the last fenced block that
\* parses as an object holding a suggestions list; blocks that do not are
\* skipped, and the result is empty when no block is well-formed.
C10_LastWellFormedBlock ==
    ex_pc = "extracted" => ex_result = LastWellFormed(ex_blocks)

----------------------------------------------------------------------------
(* ai_review.py: parse_new_file_lines_from_patch *)

(* A patch is [blank, parse, hunks]: blank when patch.strip() is empty,   *)
(* parse = "raises" when PatchSet rejects the text, and hunks the hunks   *)
(* PatchSet yields, each [target_start, lines] with every line "added",   *)
(* "removed" or "context".                                                 *)

\* PatchSet(patch, ...) raises the parser's exception
PatchSetRaises(patch) == patch.parse = "raises"

\* PatchSet(patch, ...): the hunks of all files
PatchSet(patch) == patch.hunks

RECURSIVE WalkLinesCountsRemoved(_, _, _)
\* mutant: a removed line takes a line number of the new file too
WalkLinesCountsRemoved(lines, right_line_num, acc) ==
    IF lines = <<>> THEN acc
    ELSE IF Head(lines) \in { "added", "context" }
         THEN WalkLinesCountsRemoved(Tail(lines), right_line_num + 1,
                  [ seen |-> TRUE,
                    min_r |-> IF ~acc.seen \/ right_line_num < acc.min_r
                              THEN right_line_num ELSE acc.min_r,
                    max_r |-> IF ~acc.seen \/ right_line_num > acc.max_r
                              THEN right_line_num ELSE acc.max_r,
                    right_lines |-> acc.right_lines \cup { right_line_num } ])
         ELSE WalkLinesCountsRemoved(Tail(lines), right_line_num + 1, acc)

RECURSIVE WalkLines(_, _, _)
\* the loop over the lines of one hunk; acc = [seen, min_r, max_r, right_lines]
WalkLines(lines, right_line_num, acc) ==
    IF lines = <<>> THEN acc
    ELSE IF Head(lines) \in { "added", "context" }
         THEN WalkLines(Tail(lines), right_line_num + 1,
                  [ seen |-> TRUE,
                    min_r |-> IF ~acc.seen \/ right_line_num < acc.min_r
                              THEN right_line_num ELSE acc.min_r,
                    max_r |-> IF ~acc.seen \/ right_line_num > acc.max_r
                              THEN right_line_num ELSE acc.max_r,
                    right_lines |-> acc.right_lines \cup { right_line_num } ])
         ELSE WalkLines(Tail(lines), right_line_num, acc)

RECURSIVE WalkHunks(_, _)
WalkHunks(hunks, acc) ==
    IF hunks = <<>> THEN acc
    ELSE WalkHunks(Tail(hunks),
                   WalkLines(Head(hunks).lines, Head(hunks).target_start, acc))

\* the bounds the loops over the hunks give
MappedBounds(patch) ==
    LET acc == WalkHunks(PatchSet(patch),
                   [seen |-> FALSE, min_r |-> 0, max_r |-> 0, right_lines |-> {}])
    IN  <<acc.min_r, acc.max_r, acc.right_lines>>

\* [raised, bounds]: bounds = (min_r, max_r, right_lines) when the function
\* returns; raised when PatchSet raises, which the function does not handle
parse_new_file_lines_from_patch(patch) ==
    IF patch.blank THEN [ raised |-> FALSE, bounds |-> <<0, 0, {}>> ]
    ELSE IF PatchSetRaises(patch) THEN [ raised |-> TRUE, bounds |-> <<0, 0, {}>> ]
    ELSE [ raised |-> FALSE, bounds |-> MappedBounds(patch) ]

----------------------------------------------------------------------------
(* ai_review.py: sanitize_replacement and the inline review *)

\* repl.replace(three backticks, two backticks + U+200B + backtick).rstrip("\n")
sanitize_replacement(repl) ==
    RStripLF(Replace(repl, <<BT, BT, BT>>, <<BT, BT, ZWSP, BT>>))

MAX_INLINE_COMMENTS == 20

\* one item of review_comments; replacement is the text put between the
\* fences of the suggestion block of the body
ReviewComment(c) ==
    [ path |-> c.path,
      line |-> c.end_line,
      start_line |-> IF c.end_line # c.start_line THEN <<c.start_line>> ELSE <<>>,
      replacement |-> sanitize_replacement(c.replacement),
      body_extra |-> c.body_extra ]

\* the review post_review_with_inline_suggestions sends (comments # [])
InlineReview(comments) ==
    [ kind |-> "inline",
      comments |-> [ i \in 1..Min(Len(comments), MAX_INLINE_COMMENTS) |->
                       ReviewComment(comments[i]) ] ]

\* the review post_review_comment sends
BodyReview(body) == [ kind |-> body, comments |-> <<>> ]

----------------------------------------------------------------------------
(* ai_review.py: the run *)

Paths == { "a.py", "b.py" }

\* a.py: one hunk at line 1 (removed, added, added, context): lines 1..3
\* b.py: one hunk at line 5 (context, added): lines 5..6
GoodPatch(path) ==
    IF path = "a.py"
    THEN [ blank |-> FALSE, parse |-> "ok",
           hunks |-> << [ target_start |-> 1,
                          lines |-> <<"removed", "added", "added", "context">> ] >> ]
    ELSE [ blank |-> FALSE, parse |-> "ok",
           hunks |-> << [ target_start |-> 5, lines |-> <<"context", "added">> ] >> ]

\* no textual diff (binary file, rename)
BlankPatch == [ blank |-> TRUE, parse |-> "ok", hunks |-> <<>> ]

\* malformed text the parser rejects (a hunk shorter than its header says)
RejectedPatch == [ blank |-> FALSE, parse |-> "raises", hunks |-> <<>> ]

\* malformed text the parser reads no hunk from (an unreadable header)
NoHunkPatch == [ blank |-> FALSE, parse |-> "ok", hunks |-> <<>> ]

PatchesOf(path) == { GoodPatch(path), BlankPatch, RejectedPatch, NoHunkPatch }

\* the lists fetch_pr_files_all_pages may return
FileLists ==
    { <<>> }
    \cup { << [filename |-> "a.py", patch |-> pa] >> : pa \in PatchesOf("a.py") }
    \cup { << [filename |-> "a.py", patch |-> pa], [filename |-> "b.py", patch |-> pb] >> :
             pa \in PatchesOf("a.py"), pb \in PatchesOf("b.py") }

RECURSIVE Ticks(_)
\* a run of n backticks
Ticks(n) == IF n = 0 THEN <<>> ELSE <<BT>> \o Ticks(n - 1)

\* replacement texts the model may send
ModelReplacements ==
    { <<" ">>, <<"x", LF>> } \cup { Ticks(n) : n \in 3..MaxTicks }

\* (start_line, end_line) the model may send
ModelRanges == { <<1, 1>>, <<7, 2>>, <<9, 9>> }

\* path: "" when the model gives none
ModelPaths == Paths \cup { "" }

\* One entry of the model's suggestions list. well_typed is FALSE when the
\* entry is no object or its line numbers are no integers.
ModelSuggestions ==
    { [ path |-> p, well_typed |-> TRUE, start_line |-> r[1], end_line |-> r[2],
        replacement |-> t, rationale |-> w ] :
        p \in ModelPaths, r \in ModelRanges, t \in ModelReplacements,
        w \in { "", "why" } }
    \cup { [ path |-> "", well_typed |-> FALSE, start_line |-> 0, end_line |-> 0,
             replacement |-> <<>>, rationale |-> "" ] }

\* What call_aoai and json.loads give for a chunk: an exception, a value
\* that is no object, or an object with or without a summary and with a
\* suggestions list of no or one entry (has_list FALSE: no list).
ModelResponses ==
    { [ kind |-> k, has_summary |-> FALSE, has_list |-> FALSE, suggestions |-> <<>> ] :
        k \in { "exception", "not_dict" } }
    \cup { [ kind |-> "dict", has_summary |-> h, has_list |-> l, suggestions |-> <<>> ] :
             h \in BOOLEAN, l \in BOOLEAN }
    \cup { [ kind |-> "dict", has_summary |-> h, has_list |-> TRUE, suggestions |-> <<g>> ] :
             h \in BOOLEAN, g \in ModelSuggestions }

\* the checkout: a.py has three lines, b.py six
Checkout ==
    [ p \in Paths |->
        IF p = "a.py" THEN <<"a", LF, "b", LF, "c", LF>>
        ELSE <<"a", LF, "b", LF, "c", LF, "d", LF, "e", LF, "f", LF>> ]

MainInit ==
    /\ SUGGEST_INLINE \in BOOLEAN
    /\ ONLY_CONSOLIDATED \in BOOLEAN
    /\ APPLY_MODE \in { "suggestions", "commit" }
    /\ files \in FileLists
    /\ fi = 0
    /\ min_r = 0 /\ max_r = 0 /\ right_lines = {}
    /\ file_summaries = <<>>
    /\ file_suggestions = <<>>
    /\ si = 0
    /\ consolidated_sections = <<>>
    /\ inline_comments = <<>>
    /\ edits_to_apply = [ p \in Paths |-> <<>> ]
    /\ posted = <<>>
    /\ disk = Checkout
    /\ pc = "load"
    /\ abort_at = ""

MainIdle ==
    /\ SUGGEST_INLINE = TRUE /\ ONLY_CONSOLIDATED = FALSE /\ APPLY_MODE = "suggestions"
    /\ files = <<>> /\ fi = 0 /\ min_r = 0 /\ max_r = 0 /\ right_lines = {}
    /\ file_summaries = <<>> /\ file_suggestions = <<>> /\ si = 0
    /\ consolidated_sections = <<>> /\ inline_comments = <<>>
    /\ edits_to_apply = [ p \in Paths |-> <<>> ]
    /\ posted = <<>> /\ disk = Checkout /\ pc = "idle" /\ abort_at = ""

\* The module is loaded. The annotations of lines 181, 213, 234 and 269 use
\* Tuple and Any, which line 2 does not import: an interpreter that
\* evaluates annotations at definition raises NameError there, one that
\* defers them goes on to main().
LoadModule ==
    /\ pc = "load"
    /\ \/ pc' = "fetch" /\ abort_at' = abort_at
       \/ pc' = "aborted" /\ abort_at' = "annotations"
    /\ UNCHANGED <<flagVars, files, fi, min_r, max_r, right_lines, file_summaries,
                   file_suggestions, si, consolidated_sections, inline_comments,
                   edits_to_apply, posted, disk>>
    /\ UNCHANGED notMainVars

\* main(), lines 320-328
FetchFiles ==
    /\ pc = "fetch"
    /\ IF files = <<>>
       THEN /\ posted' = Append(posted, BodyReview("no_relevant_files"))
            /\ pc' = "done"
            /\ fi' = fi
       ELSE /\ posted' = posted
            /\ pc' = "file"
            /\ fi' = 1
    /\ UNCHANGED <<flagVars, files, min_r, max_r, right_lines, file_summaries,
                   file_suggestions, si, consolidated_sections, inline_comments,
                   edits_to_apply, disk, abort_at>>
    /\ UNCHANGED notMainVars

\* main(), lines 330-351: the head of the loop over the files and the
\* mapping of the file's diff
FileStart ==
    /\ pc = "file"
    /\ fi <= Len(files)
    /\ LET patch == files[fi].patch
           mapped == parse_new_file_lines_from_patch(patch)
       IN  IF patch.blank
           THEN /\ fi' = fi + 1
                /\ UNCHANGED <<min_r, max_r, right_lines, file_summaries,
                               file_suggestions, pc, abort_at>>
           ELSE IF mapped.raised
           THEN /\ pc' = "aborted"
                /\ abort_at' = "parse_new_file_lines_from_patch"
                /\ UNCHANGED <<fi, min_r, max_r, right_lines, file_summaries,
                               file_suggestions>>
           ELSE /\ min_r' = mapped.bounds[1]
                /\ max_r' = mapped.bounds[2]
                /\ right_lines' = mapped.bounds[3]
                /\ file_summaries' = <<>>
                /\ file_suggestions' = <<>>
                /\ pc' = "model"
                /\ UNCHANGED <<fi, abort_at>>
    /\ UNCHANGED <<flagVars, files, si, consolidated_sections, inline_comments,
                   edits_to_apply, posted, disk>>
    /\ UNCHANGED notMainVars

\* main(), lines 353-374: the model is asked about the file's prompt (one
\* chunk: prompts of at most 7000 characters) and the file's section is made
ModelCall ==
    /\ pc = "model"
    /\ \E resp \in ModelResponses :
         LET summaries ==
                 IF resp.kind = "exception" THEN <<"failed">>
                 ELSE IF resp.kind = "not_dict" THEN <<"not_json">>
                 ELSE IF resp.has_summary THEN <<"summary">> ELSE <<>>
             suggestions ==
                 IF resp.kind = "dict" /\ resp.has_list THEN resp.suggestions ELSE <<>>
         IN  /\ file_summaries' = file_summaries \o summaries
             /\ file_suggestions' = file_suggestions \o suggestions
             /\ consolidated_sections' =
                    IF file_summaries' # <<>>
                    THEN Append(consolidated_sections,
                                [ filename |-> files[fi].filename,
                                  summaries |-> file_summaries' ])
                    ELSE consolidated_sections
    /\ si' = 1
    /\ pc' = "suggestions"
    /\ UNCHANGED <<flagVars, files, fi, min_r, max_r, right_lines, inline_comments,
                   edits_to_apply, posted, disk, abort_at>>
    /\ UNCHANGED notMainVars

\* main(), lines 378-387: the suggestion gets past both "continue"s
Accepted(s, filename, clamped) ==
    /\ s.well_typed
    /\ clamped[3]
    /\ NotBlank(s.replacement)

\* main(), lines 377-406: one suggestion of the file
ProcessSuggestion ==
    /\ pc = "suggestions"
    /\ si <= Len(file_suggestions)
    /\ LET s == file_suggestions[si]
           filename == files[fi].filename
           path == IF s.path # "" THEN s.path ELSE filename
           clamped == clamp_and_validate_range(s.start_line, s.end_line,
                                               right_lines, min_r, max_r)
       IN  IF Accepted(s, filename, clamped)
           THEN /\ inline_comments' =
                       Append(inline_comments,
                              [ path |-> path,
                                start_line |-> clamped[1],
                                end_line |-> clamped[2],
                                replacement |-> s.replacement,
                                body_extra |-> IF s.rationale # "" THEN "rationale"
                                               ELSE NoValue ])
                /\ edits_to_apply' =
                       [ edits_to_apply EXCEPT ![path] =
                           Append(@, [ start_line |-> clamped[1],
                                       end_line |-> clamped[2],
                                       replacement |-> s.replacement ]) ]
           ELSE UNCHANGED <<inline_comments, edits_to_apply>>
    /\ si' = si + 1
    /\ UNCHANGED <<flagVars, files, fi, min_r, max_r, right_lines, file_summaries,
                   file_suggestions, consolidated_sections, posted, disk, pc, abort_at>>
    /\ UNCHANGED notMainVars

\* the loop over the file's suggestions ends: the next file
NextFile ==
    /\ pc = "suggestions"
    /\ si > Len(file_suggestions)
    /\ fi' = fi + 1
    /\ pc' = "file"
    /\ UNCHANGED <<flagVars, files, min_r, max_r, right_lines, file_summaries,
                   file_suggestions, si, consolidated_sections, inline_comments,
                   edits_to_apply, posted, disk, abort_at>>
    /\ UNCHANGED notMainVars

\* main(), line 412
PostsBody == ~ONLY_CONSOLIDATED

\* apply_edits_and_commit, lines 275-297: every path of edits that exists
WrittenCheckout(edits) ==
    [ p \in DOMAIN disk |->
        IF edits[p] # <<>> THEN WriteBack(EditedLines(disk[p], edits[p])) ELSE disk[p] ]

\* main(), lines 408-432: publication, after the last file
Publish ==
    /\ pc = "file"
    /\ fi > Len(files)
    /\ \E git_ok \in BOOLEAN :
         LET inline == IF SUGGEST_INLINE /\ inline_comments # <<>>
                       THEN << InlineReview(inline_comments) >> ELSE <<>>
             body == IF PostsBody
                     THEN << BodyReview(IF consolidated_sections # <<>>
                                        THEN "consolidated" ELSE "nothing_analysable") >>
                     ELSE <<>>
             commit == APPLY_MODE = "commit" /\ inline_comments # <<>>
             applied == IF ~commit THEN <<>>
                        ELSE IF git_ok THEN << BodyReview("applied") >>
                        ELSE << BodyReview("apply_failed") >>
         IN  /\ posted' = posted \o inline \o body \o applied
             /\ disk' = IF commit THEN WrittenCheckout(edits_to_apply) ELSE disk
    /\ pc' = "done"
    /\ UNCHANGED <<flagVars, files, fi, min_r, max_r, right_lines, file_summaries,
                   file_suggestions, si, consolidated_sections, inline_comments,
                   edits_to_apply, abort_at>>
    /\ UNCHANGED notMainVars

MainNext ==
    \/ LoadModule
    \/ FetchFiles
    \/ FileStart
    \/ ModelCall
    \/ ProcessSuggestion
    \/ NextFile
    \/ Publish

----------------------------------------------------------------------------
(* Claims on the run of ai_review.py *)

\* C3: every comment handed to the comment sink carries a replacement text
\* with no run of three consecutive backticks.
C3_NoFenceInReplacement ==
    \A i \in 1..Len(posted) :
        \A j \in 1..Len(posted[i].comments) :
            ~Contains(posted[i].comments[j].replacement, <<BT, BT, BT>>)

\* the LineBounds of the file named path: those of its own diff
OwnBounds(path) ==
    LET own == { i \in 1..Len(files) : files[i].filename = path }
    IN  IF own = {} THEN <<0, 0, {}>>
        ELSE LET mapped == parse_new_file_lines_from_patch(
                               files[CHOOSE i \in own : TRUE].patch)
             IN  IF mapped.raised THEN <<0, 0, {}>> ELSE mapped.bounds

\* the ResolvedEdit invariant of an edit or comment e for the bounds b
ResolvedWithin(e, b) ==
    /\ e.start_line <= e.end_line
    /\ b[1] <= e.start_line
    /\ e.end_line <= b[2]
    /\ \E ln \in e.start_line..e.end_line : ln \in b[3]

\* C5: every edit stored for a path, and every inline comment for it,
\* satisfies the ResolvedEdit invariant for the LineBounds of that file.
C5_EditsWithinOwnBounds ==
    /\ \A p \in Paths :
           \A i \in 1..Len(edits_to_apply[p]) :
               ResolvedWithin(edits_to_apply[p][i], OwnBounds(p))
    /\ \A i \in 1..Len(inline_comments) :
           ResolvedWithin(inline_comments[i], OwnBounds(inline_comments[i].path))

\* the diff of the file being processed is malformed
MalformedDiff(patch) == patch \in { RejectedPatch, NoHunkPatch }

\* C6: a malformed diff gives the empty bounds for its file and never raises
\* past the mapping step.
C6_MalformedDiffDegrades ==
    /\ abort_at # "parse_new_file_lines_from_patch"
    /\ (pc \in { "model", "suggestions" } /\ MalformedDiff(files[fi].patch)) =>
           <<min_r, max_r, right_lines>> = <<0, 0, {}>>

\* C7: a run that finishes with no accepted edit or inline comment has posted
\* a result message.
C7_AlwaysPostsResult ==
    (pc = "done" /\ inline_comments = <<>>) => posted # <<>>

----------------------------------------------------------------------------
(* ai_review.py: parse_new_file_lines_from_patch, called on its own *)

\* the kinds of line PatchSet gives for a hunk
LineKinds == { "added", "removed", "context" }

RECURSIVE KindSeqs(_)
KindSeqs(n) ==
    IF n = 0 THEN { <<>> }
    ELSE KindSeqs(n - 1) \cup
         { Append(ks, k) : ks \in { x \in KindSeqs(n - 1) : Len(x) = n - 1 },
                           k \in LineKinds }

\* hunk.target_start: hunks at the top of the file and further down, which
\* meet when the first one has two lines of the new file
HunkStarts == { 1, 3 }

Hunks ==
    { [ target_start |-> t, lines |-> ls ] :
        t \in HunkStarts, ls \in KindSeqs(MaxHunkLines) }

RECURSIVE HunkSeqs(_)
\* the hunks of a patch, in any order
HunkSeqs(n) ==
    IF n = 0 THEN { <<>> }
    ELSE HunkSeqs(n - 1) \cup
         { Append(hs, h) : hs \in { x \in HunkSeqs(n - 1) : Len(x) = n - 1 },
                           h \in Hunks }

Patches ==
    { [ blank |-> FALSE, parse |-> "ok", hunks |-> hs ] : hs \in HunkSeqs(MaxHunks) }
        \cup { BlankPatch, RejectedPatch }

ParseInit ==
    /\ pa_patch \in Patches
    /\ pa_result = NoValue
    /\ pa_pc = "parse"

ParseIdle ==
    /\ pa_patch = BlankPatch /\ pa_result = NoValue /\ pa_pc = "idle"

\* min_r, max_r, right_lines = parse_new_file_lines_from_patch(patch)
ParsePatch ==
    /\ pa_pc = "parse"
    /\ pa_result' = parse_new_file_lines_from_patch(pa_patch)
    /\ pa_pc' = "parsed"
    /\ UNCHANGED pa_patch
    /\ UNCHANGED notParseVars

ParseNext == ParsePatch

----------------------------------------------------------------------------
(* Claims on parse_new_file_lines_from_patch *)

\* line i of the hunk is a line of the new file
OnRight(h, i) == h.lines[i] \in { "added", "context" }

\* The line numbers a counter started at the hunk's target_start records
\* when it records and then steps at every added or context line: the
\* number of line i is target_start plus the added and context lines before it.
HunkCovered(h) ==
    { h.target_start + Cardinality({ j \in 1..(i - 1) : OnRight(h, j) }) :
        i \in { x \in 1..Len(h.lines) : OnRight(h, x) } }

Covered(patch) ==
    IF patch.blank THEN {}
    ELSE UNION { HunkCovered(patch.hunks[k]) : k \in 1..Len(patch.hunks) }

SetMin(S) == CHOOSE x \in S : \A y \in S : x <= y

SetMax(S) == CHOOSE x \in S : \A y \in S : x >= y

\* C13: what the call returns is (min, max, covered) with covered the line
\* numbers recorded per hunk and min and max its least and greatest member,
\* and (0, 0, {}) when no line is recorded (empty diff, removals only).
C13_CoveredLinesOfPatch ==
    (pa_pc = "parsed" /\ ~pa_result.raised) =>
        LET covered == Covered(pa_patch)
        IN  pa_result.bounds =
                IF covered = {} THEN <<0, 0, {}>>
                ELSE <<SetMin(covered), SetMax(covered), covered>>

\* two hunks, the lower one second, with a removed line before an added one
C13_Witness ==
    /\ pa_pc = "parsed"
    /\ pa_patch.hunks =
           << [ target_start |-> 3, lines |-> <<"context", "added">> ],
              [ target_start |-> 1, lines |-> <<"removed", "added">> ] >>
    /\ pa_result = [ raised |-> FALSE, bounds |-> <<1, 4, {1, 3, 4}>> ]

----------------------------------------------------------------------------
(* Specifications *)

InitClamp == ClampInit /\ ApplyIdle /\ SnippetIdle /\ ExtractIdle /\ ParseIdle /\ MainIdle

SpecClamp == InitClamp /\ [][ClampNext]_vars

InitApply == ApplyInit /\ ClampIdle /\ SnippetIdle /\ ExtractIdle /\ ParseIdle /\ MainIdle

SpecApply == InitApply /\ [][ApplyNext]_vars

InitSnippet == SnippetInit /\ ClampIdle /\ ApplyIdle /\ ExtractIdle /\ ParseIdle /\ MainIdle

SpecSnippet == InitSnippet /\ [][SnippetNext]_vars

InitLocate == LocateInit /\ ClampIdle /\ ApplyIdle /\ ExtractIdle /\ ParseIdle /\ MainIdle

SpecLocate == InitLocate /\ [][SnippetNext]_vars

InitExtract == ExtractInit /\ ClampIdle /\ ApplyIdle /\ SnippetIdle /\ ParseIdle /\ MainIdle

SpecExtract == InitExtract /\ [][ExtractNext]_vars

InitParse == ParseInit /\ ClampIdle /\ ApplyIdle /\ SnippetIdle /\ ExtractIdle /\ MainIdle

SpecParse == InitParse /\ [][ParseNext]_vars

Init == MainInit /\ ClampIdle /\ ApplyIdle /\ SnippetIdle /\ ExtractIdle /\ ParseIdle

Next == MainNext

Spec == Init /\ [][Next]_vars

====
